---- MODULE Spec2Model ----
(***************************************************************************)
(* Model of client/stable_diffusion.py: the StableDiffusion pipeline       *)
(* (StableDiffusion.__init__ and StableDiffusion.__call__) and its two     *)
(* entry points, main and run_stable_diffusion.                            *)
(*                                                                         *)
(* Tensors are records [shape, data]: shape is the numpy shape and data    *)
(* holds one small integer per sample of the leading axis (a residue in    *)
(* 0..Modulus-1 for latents and noise predictions). The                    *)
(* pretrained networks, the scheduler and numpy's generator are external   *)
(* deterministic functions; they are modelled by fixed arithmetic on these *)
(* residues. Every forward pass, the model download and the HTTP call may  *)
(* raise; an exception is never caught in the source, so it ends the run.  *)
(***************************************************************************)
EXTENDS Integers, Sequences, FiniteSets, TLC

(***************************************************************************)
(* Bounds of the model.                                                    *)
(***************************************************************************)
MaxSteps == 3
MaxWideSteps == 201
MaxSeed == 2
MaxEntropy == 1
MaxClock == 1
Modulus == 5

(***************************************************************************)
(* Data of the external artefacts.                                         *)
(***************************************************************************)
ModelMaxLength == 2
PadToken == 0
NumTrainTimesteps == 1000
UnetInputShape == <<2, 4, 64, 64>>
TextEncoderOutputShape == <<1, ModelMaxLength, 768>>
VaeOutputShape == <<1, 3, 512, 512>>

Prompts == {<<1>>, <<2, 1, 2>>}
EmptyPrompt == <<>>
Seeds == 1..MaxSeed
EntropyStates == 0..MaxEntropy
GuidanceScales == {5, 10, 75}
Etas == {0, 5}
Servers == {"", "http://server"}
StepChoices == 1..MaxSteps
WideStepChoices == StepChoices \cup 199..MaxWideSteps

LMSDiscreteScheduler ==
    [isLMS |-> TRUE,
     set_timesteps_params |-> {"num_inference_steps"},
     step_params |-> {"model_output", "timestep", "sample", "order"}]

Schedulers ==
    {[isLMS |-> l, set_timesteps_params |-> {"num_inference_steps"} \cup o,
      step_params |-> {"model_output", "timestep", "sample"} \cup e] :
        l \in BOOLEAN, o \in {{}, {"offset"}}, e \in {{}, {"eta"}}}

(***************************************************************************)
(* Python's round((i / N) * 100) on IEEE-754 doubles, computed exactly.    *)
(* Off a tie the double result lies on the same side of the tie as the     *)
(* exact quotient (the error is below 2^-44, the distance to a tie at      *)
(* least 1/(2N)). On an exact tie 100*i/N = k + 1/2 the two roundings      *)
(* (of i/N, then of the product) are followed on the integers: the         *)
(* remainder of i*2^(52+s) by N gives the direction and size of the first  *)
(* error, which the second rounding keeps or absorbs; a product that is    *)
(* exactly k + 1/2 is rounded half to even by round().                     *)
(***************************************************************************)
RECURSIVE Pow2(_)
Pow2(n) == IF n <= 0 THEN 1 ELSE 2 * Pow2(n - 1)

RECURSIVE MantRem(_, _, _)
MantRem(r, N, n) == IF n = 0 THEN r % N ELSE MantRem((2 * r) % N, N, n - 1)

RECURSIVE QuotExp(_, _, _)
QuotExp(i, N, s) == IF i * Pow2(s) >= N THEN s ELSE QuotExp(i, N, s + 1)

RECURSIVE TieExp(_, _)
TieExp(k, e) == IF 2 * k + 1 >= Pow2(e + 2) THEN TieExp(k, e + 1) ELSE e

HalfEven(k) == IF k % 2 = 0 THEN k ELSE k + 1

TieRound(i, N, k) ==
    LET s == QuotExp(i, N, 0)
        r == MantRem(i, N, 52 + s)
        rprev == MantRem(i, N, 51 + s)
        qodd == 2 * rprev >= N
        down == 2 * r < N \/ (2 * r = N /\ ~qodd)
        t == TieExp(k, 0 - 1) + s
        lim == IF k = 0 THEN N * Pow2(t - 1) ELSE N * Pow2(t)
    IN  IF r = 0 THEN HalfEven(k)
        ELSE IF down
             THEN (IF 200 * r > lim THEN k ELSE HalfEven(k))
             ELSE (IF 200 * (N - r) > N * Pow2(t) THEN k + 1 ELSE HalfEven(k))

RoundPercent(i, N) ==
    LET k == (100 * i) \div N
        rem2 == 2 * (100 * i - k * N)
    IN  IF rem2 < N THEN k
        ELSE IF rem2 > N THEN k + 1
        ELSE TieRound(i, N, k)

(***************************************************************************)
(* Tokenizer, text encoder, generator, scheduler, networks.                *)
(***************************************************************************)
Tokenize(prompt) ==
    [k \in 1..ModelMaxLength |-> IF k <= Len(prompt) THEN prompt[k] ELSE PadToken]

RECURSIVE TokenHash(_)
TokenHash(tokens) ==
    IF tokens = <<>> THEN 0
    ELSE Head(tokens) + 3 * TokenHash(Tail(tokens))

TextEncoder(tokens) ==
    [shape |-> TextEncoderOutputShape, data |-> <<TokenHash(tokens)>>]

Concatenate(a, b) ==
    [shape |-> <<a.shape[1] + b.shape[1]>> \o Tail(a.shape),
     data |-> a.data \o b.data]

Stack(a, b) ==
    [shape |-> <<2>> \o a.shape, data |-> a.data \o b.data]

Randn(shape, state) ==
    [shape |-> shape, data |-> <<(2 * state + 1) % Modulus>>]

Timesteps(N, offset) ==
    [k \in 1..N |->
        offset + (IF N = 1 THEN NumTrainTimesteps - 1
                  ELSE ((NumTrainTimesteps - 1) * (N - k)) \div (N - 1))]

Sigmas(N) == [k \in 1..(N + 1) |-> N + 1 - k]

MulScalar(x, c) ==
    [shape |-> x.shape, data |-> [b \in 1..Len(x.data) |-> (x.data[b] * c) % Modulus]]

DivSigma(x, sigma) ==
    [shape |-> x.shape,
     data |-> [b \in 1..Len(x.data) |-> (x.data[b] + sigma * sigma + 1) % Modulus]]

UnetForward(latent_model_input, t, encoder_hidden_states) ==
    [shape |-> latent_model_input.shape,
     data |-> [b \in 1..Len(latent_model_input.data) |->
                 (2 * latent_model_input.data[b] + t
                    + 3 * encoder_hidden_states.data[b] + 1) % Modulus]]

Guide(noise_pred, guidance_scale) ==
    [shape |-> Tail(noise_pred.shape),
     data |-> <<(10 * noise_pred.data[1]
                  + guidance_scale * (noise_pred.data[2] + Modulus - noise_pred.data[1]))
                % Modulus>>]

KwargValue(kwargs, name) ==
    IF \E p \in kwargs : p[1] = name
    THEN (CHOOSE p \in kwargs : p[1] = name)[2]
    ELSE 0

SchedulerStepFn(model_output, timestep, sample, kwargs) ==
    [shape |-> sample.shape,
     data |-> [b \in 1..Len(sample.data) |->
                 (3 * sample.data[b] + model_output.data[b] + timestep
                    + KwargValue(kwargs, "eta")) % Modulus]]

ExpandDims(x) == [shape |-> <<1>> \o x.shape, data |-> x.data]

VaeForward(latents_in) ==
    [shape |-> VaeOutputShape,
     data |-> [b \in 1..Len(latents_in.data) |-> ((3 * latents_in.data[b]) % 7) - 3]]

Clip(v, lo, hi) == IF v < lo THEN lo ELSE IF v > hi THEN hi ELSE v

ToCvImage(image) ==
    LET s == Tail(image.shape)
    IN  [shape |-> <<s[2], s[3], s[1]>>,
         data |-> <<(255 * Clip(image.data[1] + 2, 0, 4)) \div 4>>]

(***************************************************************************)
(* State.                                                                  *)
(***************************************************************************)
VARIABLES
    caller,              \* "main", "run_stable_diffusion", or "StableDiffusion" (the class used directly)
    args,                \* prompt, num_inference_steps, guidance_scale (tenths), eta (tenths), seed, server
    scheduler,           \* the scheduler object handed to StableDiffusion.__init__
    rng,                 \* state of numpy's process-wide generator
    now,                 \* value perf_counter() returns
    pc,                  \* position in the script
    failure,             \* <<>> or <<[op, i]>>: the exception that ended the run
    latent_shape,        \* self.latent_shape
    text_embeddings,
    latents,
    timesteps,           \* self.scheduler.timesteps
    sigmas,              \* self.scheduler.sigmas
    extra_step_kwargs,
    start_t,
    total,
    i,                   \* loop index
    latent_model_input,
    noise_pred,
    image,
    output_file,         \* <<>> or <<image written by cv2.imwrite>>
    calls,               \* number of completed calls of each external operation
    set_timesteps_call,  \* arguments of the set_timesteps call
    init_sigma,          \* <<>> or <<sigma the initial latent was multiplied by>>
    input_sigma,         \* <<>> or <<sigma the current model input was divided by>>
    unet_call,           \* arguments of the last denoiser call
    guided,              \* whether the guidance combination was applied in this iteration
    step_call,           \* arguments of the last scheduler.step call
    reports,             \* JSON bodies of the completed progress reports
    iterOps              \* operations of the current iteration, in order

vars == <<caller, args, scheduler, rng, now, pc, failure, latent_shape,
          text_embeddings, latents, timesteps, sigmas, extra_step_kwargs,
          start_t, total, i, latent_model_input, noise_pred, image,
          output_file, calls, set_timesteps_call, init_sigma, input_sigma,
          unet_call, guided, step_call, reports, iterOps>>

NoTensor == [shape |-> <<>>, data |-> <<>>]

NoCalls == [load |-> 0, text_encoder |-> 0, set_timesteps |-> 0, unet |-> 0,
            put |-> 0, step |-> 0, vae |-> 0, imwrite |-> 0]

Called(op) == [calls EXCEPT ![op] = @ + 1]

GuidanceEnabledAtOne == args.guidance_scale >= 10

GuidanceEnabled == args.guidance_scale > 10

SeededStateIgnored == rng

SeededState == IF args.seed # <<>> THEN args.seed[1] ELSE rng

LoopContinuesShort == i < Len(timesteps) - 1

LoopContinues == i < Len(timesteps)

(***************************************************************************)
(* Statement order of the loop body: the statement that follows each one.  *)
(***************************************************************************)
FollowsReportLast(stmt) ==
    CASE stmt = "build" -> "unet"
      [] stmt = "unet" -> "guidance"
      [] stmt = "guidance" -> "step"
      [] stmt = "step" -> "report"
      [] stmt = "report" -> "loop"

Follows(stmt) ==
    CASE stmt = "build" -> "unet"
      [] stmt = "unet" -> "report"
      [] stmt = "report" -> "guidance"
      [] stmt = "guidance" -> "step"
      [] stmt = "step" -> "loop"

(***************************************************************************)
(* Entry points: the arguments each one forwards to the pipeline.          *)
(***************************************************************************)
MainArgs(steps, prompts, seeds, scales, etas) ==
    [prompt : prompts, num_inference_steps : steps, guidance_scale : scales,
     eta : etas, seed : {<<>>} \cup {<<s>> : s \in seeds}, server : {""}]

RunStableDiffusionArgs(steps, prompts, seeds) ==
    [prompt : prompts, num_inference_steps : steps, guidance_scale : {75},
     eta : {0}, seed : {<<s>> : s \in seeds}, server : Servers]

DirectArgs(steps, prompts, scales, etas) ==
    [prompt : prompts, num_inference_steps : steps, guidance_scale : scales,
     eta : etas, seed : {<<>>}, server : Servers]

InitWith(steps, prompts, seeds, scales, etas, schedulers, entropy) ==
    /\ caller \in {"main", "run_stable_diffusion", "StableDiffusion"}
    /\ args \in CASE caller = "main" -> MainArgs(steps, prompts, seeds, scales, etas)
                  [] caller = "run_stable_diffusion" ->
                        RunStableDiffusionArgs(steps, prompts, seeds)
                  [] OTHER -> DirectArgs(steps, prompts, scales, etas)
    /\ scheduler \in IF caller = "StableDiffusion" THEN schedulers
                     ELSE {LMSDiscreteScheduler}
    /\ rng \in entropy
    /\ now = 0
    /\ pc = "entry"
    /\ failure = <<>>
    /\ latent_shape = <<>>
    /\ text_embeddings = NoTensor
    /\ latents = NoTensor
    /\ timesteps = <<>>
    /\ sigmas = <<>>
    /\ extra_step_kwargs = {}
    /\ start_t = 0
    /\ total = 0
    /\ i = 0
    /\ latent_model_input = NoTensor
    /\ noise_pred = NoTensor
    /\ image = NoTensor
    /\ output_file = <<>>
    /\ calls = NoCalls
    /\ set_timesteps_call = <<>>
    /\ init_sigma = <<>>
    /\ input_sigma = <<>>
    /\ unet_call = <<>>
    /\ guided = FALSE
    /\ step_call = <<>>
    /\ reports = <<>>
    /\ iterOps = <<>>

Init == InitWith(StepChoices, Prompts, Seeds, GuidanceScales, Etas, Schedulers,
                 EntropyStates)

InitWide ==
    InitWith(WideStepChoices, {<<1>>}, {1}, {10, 75}, {0},
             {LMSDiscreteScheduler,
              [isLMS |-> FALSE,
               set_timesteps_params |-> {"num_inference_steps", "offset"},
               step_params |-> {"model_output", "timestep", "sample", "eta"}]},
             {0})

(***************************************************************************)
(* An uncaught exception of operation op ends the run.                     *)
(***************************************************************************)
RaiseCaught(op) ==
    /\ pc' = IF op = "put" THEN Follows("report") ELSE "crashed"
    /\ failure' = <<[op |-> op, i |-> i]>>

Raise(op) ==
    /\ pc' = "crashed"
    /\ failure' = <<[op |-> op, i |-> i]>>

(***************************************************************************)
(* main / run_stable_diffusion: seed the process-wide generator.           *)
(***************************************************************************)
SeedRng ==
    /\ pc = "entry"
    /\ rng' = SeededState
    /\ pc' = "construct"
    /\ UNCHANGED <<caller, args, scheduler, now, failure, latent_shape,
                   text_embeddings, latents, timesteps, sigmas, extra_step_kwargs,
                   start_t, total, i, latent_model_input, noise_pred, image,
                   output_file, calls, set_timesteps_call, init_sigma, input_sigma,
                   unet_call, guided, step_call, reports, iterOps>>

(***************************************************************************)
(* StableDiffusion.__init__: download and compile the three models.        *)
(***************************************************************************)
Construct ==
    /\ pc = "construct"
    /\ latent_shape' = Tail(UnetInputShape)
    /\ calls' = Called("load")
    /\ pc' = "encode"
    /\ UNCHANGED <<caller, args, scheduler, rng, now, failure,
                   text_embeddings, latents, timesteps, sigmas, extra_step_kwargs,
                   start_t, total, i, latent_model_input, noise_pred, image,
                   output_file, set_timesteps_call, init_sigma, input_sigma,
                   unet_call, guided, step_call, reports, iterOps>>

ConstructFails ==
    /\ pc = "construct"
    /\ Raise("load")
    /\ UNCHANGED <<caller, args, scheduler, rng, now, latent_shape,
                   text_embeddings, latents, timesteps, sigmas, extra_step_kwargs,
                   start_t, total, i, latent_model_input, noise_pred, image,
                   output_file, calls, set_timesteps_call, init_sigma, input_sigma,
                   unet_call, guided, step_call, reports, iterOps>>

(***************************************************************************)
(* __call__: text conditioning.                                            *)
(***************************************************************************)
EncodePrompt ==
    /\ pc = "encode"
    /\ text_embeddings' = TextEncoder(Tokenize(args.prompt))
    /\ calls' = Called("text_encoder")
    /\ pc' = IF GuidanceEnabled THEN "uncond" ELSE "noise"
    /\ UNCHANGED <<caller, args, scheduler, rng, now, failure, latent_shape,
                   latents, timesteps, sigmas, extra_step_kwargs,
                   start_t, total, i, latent_model_input, noise_pred, image,
                   output_file, set_timesteps_call, init_sigma, input_sigma,
                   unet_call, guided, step_call, reports, iterOps>>

EncodeUncond ==
    /\ pc = "uncond"
    /\ text_embeddings' =
          Concatenate(TextEncoder(Tokenize(EmptyPrompt)), text_embeddings)
    /\ calls' = Called("text_encoder")
    /\ pc' = "noise"
    /\ UNCHANGED <<caller, args, scheduler, rng, now, failure, latent_shape,
                   latents, timesteps, sigmas, extra_step_kwargs,
                   start_t, total, i, latent_model_input, noise_pred, image,
                   output_file, set_timesteps_call, init_sigma, input_sigma,
                   unet_call, guided, step_call, reports, iterOps>>

TextEncoderFails ==
    /\ pc \in {"encode", "uncond"}
    /\ Raise("text_encoder")
    /\ UNCHANGED <<caller, args, scheduler, rng, now, latent_shape,
                   text_embeddings, latents, timesteps, sigmas, extra_step_kwargs,
                   start_t, total, i, latent_model_input, noise_pred, image,
                   output_file, calls, set_timesteps_call, init_sigma, input_sigma,
                   unet_call, guided, step_call, reports, iterOps>>

(***************************************************************************)
(* __call__: initial noise from the process-wide generator.                *)
(***************************************************************************)
MakeNoise ==
    /\ pc = "noise"
    /\ latents' = Randn(latent_shape, rng)
    /\ rng' = rng + 1
    /\ pc' = "set_timesteps"
    /\ UNCHANGED <<caller, args, scheduler, now, failure, latent_shape,
                   text_embeddings, timesteps, sigmas, extra_step_kwargs,
                   start_t, total, i, latent_model_input, noise_pred, image,
                   output_file, calls, set_timesteps_call, init_sigma, input_sigma,
                   unet_call, guided, step_call, reports, iterOps>>

(***************************************************************************)
(* __call__: configure the scheduler, scale the initial latent, build the  *)
(* step kwargs and start the timer.                                        *)
(***************************************************************************)
ExtraSetKwargs ==
    IF "offset" \in scheduler.set_timesteps_params THEN {<<"offset", 1>>} ELSE {}

ExtraStepKwargs ==
    IF "eta" \in scheduler.step_params THEN {<<"eta", args.eta>>} ELSE {}

SetTimesteps ==
    /\ pc = "set_timesteps"
    /\ set_timesteps_call' =
          <<[num_inference_steps |-> args.num_inference_steps,
             kwargs |-> ExtraSetKwargs]>>
    /\ timesteps' = Timesteps(args.num_inference_steps,
                              KwargValue(ExtraSetKwargs, "offset"))
    /\ sigmas' = Sigmas(args.num_inference_steps)
    /\ latents' = IF scheduler.isLMS THEN MulScalar(latents, sigmas'[1]) ELSE latents
    /\ init_sigma' = IF scheduler.isLMS THEN <<sigmas'[1]>> ELSE <<>>
    /\ extra_step_kwargs' = ExtraStepKwargs
    /\ start_t' = now
    /\ i' = 0
    /\ calls' = Called("set_timesteps")
    /\ pc' = "loop"
    /\ UNCHANGED <<caller, args, scheduler, rng, now, failure, latent_shape,
                   text_embeddings, total, latent_model_input, noise_pred, image,
                   output_file, input_sigma, unet_call, guided, step_call,
                   reports, iterOps>>

(***************************************************************************)
(* Sampling loop, one action per statement group of the loop body.         *)
(***************************************************************************)
BuildInput ==
    /\ pc = "loop"
    /\ LoopContinues
    /\ LET expanded == IF GuidanceEnabled THEN Stack(latents, latents) ELSE latents
       IN  /\ latent_model_input' =
                 IF scheduler.isLMS THEN DivSigma(expanded, sigmas[i + 1])
                 ELSE expanded
           /\ input_sigma' = IF scheduler.isLMS THEN <<sigmas[i + 1]>> ELSE <<>>
    /\ guided' = FALSE
    /\ iterOps' = <<"build">>
    /\ pc' = Follows("build")
    /\ UNCHANGED <<caller, args, scheduler, rng, now, failure, latent_shape,
                   text_embeddings, latents, timesteps, sigmas, extra_step_kwargs,
                   start_t, total, i, noise_pred, image, output_file, calls,
                   set_timesteps_call, init_sigma, unet_call, step_call, reports>>

UnetInfer ==
    /\ pc = "unet"
    /\ noise_pred' = UnetForward(latent_model_input, timesteps[i + 1], text_embeddings)
    /\ unet_call' = <<[latent_model_input |-> latent_model_input,
                       t |-> timesteps[i + 1],
                       encoder_hidden_states |-> text_embeddings]>>
    /\ calls' = Called("unet")
    /\ \E elapsed \in 0..1 :
          /\ now + elapsed <= MaxClock
          /\ now' = now + elapsed
    /\ iterOps' = Append(iterOps, "unet")
    /\ pc' = Follows("unet")
    /\ UNCHANGED <<caller, args, scheduler, rng, failure, latent_shape,
                   text_embeddings, latents, timesteps, sigmas, extra_step_kwargs,
                   start_t, total, i, latent_model_input, image, output_file,
                   set_timesteps_call, init_sigma, input_sigma, guided, step_call,
                   reports>>

UnetFails ==
    /\ pc = "unet"
    /\ Raise("unet")
    /\ UNCHANGED <<caller, args, scheduler, rng, now, latent_shape,
                   text_embeddings, latents, timesteps, sigmas, extra_step_kwargs,
                   start_t, total, i, latent_model_input, noise_pred, image,
                   output_file, calls, set_timesteps_call, init_sigma, input_sigma,
                   unet_call, guided, step_call, reports, iterOps>>

(***************************************************************************)
(* Timing and the progress report. requests.put raises MissingSchema for   *)
(* a URL without a scheme (server = ""), and a connection error whenever   *)
(* the network fails; an HTTP error status does not raise.                 *)
(***************************************************************************)
PercentRemaining ==
    RoundPercent(args.num_inference_steps - i, args.num_inference_steps)

PercentNext == RoundPercent(i + 1, args.num_inference_steps)

Percent == RoundPercent(i, args.num_inference_steps)

ReportProgress ==
    /\ pc = "report"
    /\ args.server # ""
    /\ total' = now - start_t
    /\ reports' = Append(reports, [being_generated |-> TRUE,
                                   generated_percent |-> Percent])
    /\ calls' = Called("put")
    /\ iterOps' = Append(iterOps, "report")
    /\ pc' = Follows("report")
    /\ UNCHANGED <<caller, args, scheduler, rng, now, failure, latent_shape,
                   text_embeddings, latents, timesteps, sigmas, extra_step_kwargs,
                   start_t, i, latent_model_input, noise_pred, image, output_file,
                   set_timesteps_call, init_sigma, input_sigma, unet_call, guided,
                   step_call>>

ReportFails ==
    /\ pc = "report"
    /\ total' = now - start_t
    /\ Raise("put")
    /\ UNCHANGED <<caller, args, scheduler, rng, now, latent_shape,
                   text_embeddings, latents, timesteps, sigmas, extra_step_kwargs,
                   start_t, i, latent_model_input, noise_pred, image,
                   output_file, calls, set_timesteps_call, init_sigma, input_sigma,
                   unet_call, guided, step_call, reports, iterOps>>

PerformGuidance ==
    /\ pc = "guidance"
    /\ IF GuidanceEnabled
       THEN /\ noise_pred' = Guide(noise_pred, args.guidance_scale)
            /\ guided' = TRUE
            /\ iterOps' = Append(iterOps, "combine")
       ELSE UNCHANGED <<noise_pred, guided, iterOps>>
    /\ pc' = Follows("guidance")
    /\ UNCHANGED <<caller, args, scheduler, rng, now, failure, latent_shape,
                   text_embeddings, latents, timesteps, sigmas, extra_step_kwargs,
                   start_t, total, i, latent_model_input, image, output_file, calls,
                   set_timesteps_call, init_sigma, input_sigma, unet_call, step_call,
                   reports>>

StepTimeArgRaw == timesteps[i + 1]

StepTimeArg == IF scheduler.isLMS THEN i ELSE timesteps[i + 1]

SchedulerStep ==
    /\ pc = "step"
    /\ latents' = SchedulerStepFn(noise_pred, StepTimeArg, latents, extra_step_kwargs)
    /\ step_call' = <<[model_output |-> noise_pred, timestep |-> StepTimeArg,
                       i |-> i, t |-> timesteps[i + 1], sample |-> latents,
                       kwargs |-> extra_step_kwargs]>>
    /\ calls' = Called("step")
    /\ iterOps' = Append(iterOps, "step")
    /\ i' = i + 1
    /\ pc' = Follows("step")
    /\ UNCHANGED <<caller, args, scheduler, rng, now, failure, latent_shape,
                   text_embeddings, timesteps, sigmas, extra_step_kwargs,
                   start_t, total, latent_model_input, noise_pred, image,
                   output_file, set_timesteps_call, init_sigma, input_sigma,
                   unet_call, guided, reports>>

(***************************************************************************)
(* Decoder, conversion to the image format, and the caller's write.        *)
(***************************************************************************)
VaeDecode ==
    /\ pc = "loop"
    /\ ~LoopContinues
    /\ image' = VaeForward(ExpandDims(latents))
    /\ calls' = Called("vae")
    /\ pc' = "convert"
    /\ UNCHANGED <<caller, args, scheduler, rng, now, failure, latent_shape,
                   text_embeddings, latents, timesteps, sigmas, extra_step_kwargs,
                   start_t, total, i, latent_model_input, noise_pred, output_file,
                   set_timesteps_call, init_sigma, input_sigma, unet_call, guided,
                   step_call, reports, iterOps>>

VaeFails ==
    /\ pc = "loop"
    /\ ~LoopContinues
    /\ Raise("vae")
    /\ UNCHANGED <<caller, args, scheduler, rng, now, latent_shape,
                   text_embeddings, latents, timesteps, sigmas, extra_step_kwargs,
                   start_t, total, i, latent_model_input, noise_pred, image,
                   output_file, calls, set_timesteps_call, init_sigma, input_sigma,
                   unet_call, guided, step_call, reports, iterOps>>

ConvertImage ==
    /\ pc = "convert"
    /\ image' = ToCvImage(image)
    /\ pc' = IF caller = "StableDiffusion" THEN "returned" ELSE "write"
    /\ UNCHANGED <<caller, args, scheduler, rng, now, failure, latent_shape,
                   text_embeddings, latents, timesteps, sigmas, extra_step_kwargs,
                   start_t, total, i, latent_model_input, noise_pred, output_file,
                   calls, set_timesteps_call, init_sigma, input_sigma, unet_call,
                   guided, step_call, reports, iterOps>>

WriteImage ==
    /\ pc = "write"
    /\ output_file' = <<image>>
    /\ calls' = Called("imwrite")
    /\ pc' = "done"
    /\ UNCHANGED <<caller, args, scheduler, rng, now, failure, latent_shape,
                   text_embeddings, latents, timesteps, sigmas, extra_step_kwargs,
                   start_t, total, i, latent_model_input, noise_pred, image,
                   set_timesteps_call, init_sigma, input_sigma, unet_call, guided,
                   step_call, reports, iterOps>>

Next ==
    \/ SeedRng
    \/ Construct
    \/ ConstructFails
    \/ EncodePrompt
    \/ EncodeUncond
    \/ TextEncoderFails
    \/ MakeNoise
    \/ SetTimesteps
    \/ BuildInput
    \/ UnetInfer
    \/ UnetFails
    \/ ReportProgress
    \/ ReportFails
    \/ PerformGuidance
    \/ SchedulerStep
    \/ VaeDecode
    \/ VaeFails
    \/ ConvertImage
    \/ WriteImage

Spec == Init /\ [][Next]_vars

SpecWide == InitWide /\ [][Next]_vars

(***************************************************************************)
(* Properties.                                                             *)
(***************************************************************************)
N == args.num_inference_steps

Crashed == pc = "crashed"

InLoopBody == pc \in {"unet", "report", "guidance", "step"}

Decoded == pc \in {"convert", "write", "returned", "done"}

IsPrefix(s, t) ==
    /\ Len(s) <= Len(t)
    /\ \A k \in 1..Len(s) : s[k] = t[k]

\* C1: in a run without failure the loop makes exactly N iterations (N
\* denoiser passes, N scheduler steps), the decoder runs once and only after
\* the last iteration, and the file is written once and only after the decoder.
C1_ExactlyNIterations ==
    /\ calls.unet <= N /\ calls.step <= N
    /\ calls.vae <= 1 /\ calls.imwrite <= 1
    /\ calls.vae = 1 => (calls.unet = N /\ calls.step = N /\ i = N)
    /\ calls.imwrite = 1 => (calls.vae = 1 /\ output_file = <<image>>)
    /\ Decoded => calls.vae = 1
    /\ pc \in {"returned", "done"} =>
          (calls.unet = N /\ calls.step = N /\ calls.vae = 1)
    /\ pc = "done" => calls.imwrite = 1
    /\ pc # "done" => (calls.imwrite = 0 /\ output_file = <<>>)

C1_Witness ==
    /\ pc = "done"
    /\ caller = "run_stable_diffusion"
    /\ N >= 2
    /\ calls.unet = N /\ calls.step = N /\ calls.vae = 1 /\ calls.imwrite = 1

\* C2: a failing denoiser or text-encoder pass, or a failing progress-report
\* call, ends the run where it happens: no later iteration, scheduler step,
\* decoder pass or file write follows, so a failed run leaves no output file.
C2_FailureAborts ==
    /\ failure # <<>> <=> Crashed
    /\ Crashed =>
          /\ calls.imwrite = 0 /\ output_file = <<>> /\ image = NoTensor
          /\ failure[1].op # "vae" => calls.vae = 0
          /\ failure[1].op = "text_encoder" =>
                (calls.unet = 0 /\ calls.step = 0 /\ calls.put = 0 /\ reports = <<>>)
          /\ failure[1].op = "unet" =>
                /\ i = failure[1].i
                /\ calls.unet = i /\ calls.step = i /\ calls.put = i
          /\ failure[1].op = "put" =>
                /\ i = failure[1].i
                /\ calls.unet = i + 1 /\ calls.step = i /\ calls.put = i

C2_Witness ==
    /\ Crashed
    /\ failure[1].op = "put"
    /\ failure[1].i >= 1
    /\ calls.step = failure[1].i
    /\ output_file = <<>>

\* C3: the generated_percent values of the progress reports of iterations
\* 0, 1, ..., N-1 never decrease from one report to the next.
C3_PercentMonotone ==
    /\ Len(reports) <= N
    /\ reports # <<>> =>
          reports[Len(reports)].generated_percent = RoundPercent(Len(reports) - 1, N)
    /\ \A k \in 1..(Len(reports) - 1) :
          reports[k].generated_percent <= reports[k + 1].generated_percent

C3_Witness ==
    /\ N = 200
    /\ Len(reports) = N
    /\ reports[110].generated_percent = 55
    /\ reports[111].generated_percent = 55
    /\ reports[200].generated_percent = 100

\* C4 as claimed: every reported generated_percent is an integer in 0..100
\* and is strictly below 100, for every N >= 1 and every iteration.
C4_AlwaysBelow100 ==
    \A k \in 1..Len(reports) :
        /\ reports[k].generated_percent \in 0..100
        /\ reports[k].generated_percent < 100

\* C4 amended: every reported generated_percent is an integer in 0..100; it
\* is strictly below 100 whenever N < 200, and for N >= 200 the report of the
\* final iteration says 100.
C4_Below100UpTo199 ==
    \A k \in 1..Len(reports) :
        /\ reports[k].generated_percent \in 0..100
        /\ N < 200 => reports[k].generated_percent < 100
        /\ (N >= 200 /\ k = N) => reports[k].generated_percent = 100

C4_Witness ==
    /\ N = 199
    /\ Len(reports) = N
    /\ reports[N].generated_percent = 99

OrderClaimed ==
    IF args.guidance_scale > 10
    THEN <<"build", "unet", "combine", "step", "report">>
    ELSE <<"build", "unet", "step", "report">>

OrderCoded ==
    IF args.guidance_scale > 10
    THEN <<"build", "unet", "report", "combine", "step">>
    ELSE <<"build", "unet", "report", "step">>

ReportsPerIteration ==
    /\ pc \in {"unet", "report"} => Len(reports) = i
    /\ pc \in {"guidance", "step"} => Len(reports) = i + 1
    /\ (pc = "loop" \/ Decoded) => Len(reports) = i
    /\ calls.put = Len(reports)

\* C5 as claimed: in every iteration the order is build input, denoiser,
\* guidance combination, scheduler update and only then the progress report,
\* with exactly one report per iteration.
C5_ReportAfterStep ==
    /\ (InLoopBody \/ pc = "loop" \/ Crashed) => IsPrefix(iterOps, OrderClaimed)
    /\ ReportsPerIteration

\* C5 amended: in every iteration the order is build input, denoiser,
\* progress report, guidance combination, scheduler update: the report is
\* sent after the denoiser pass and before the combination and the scheduler
\* update; exactly one report is sent per iteration.
C5_ReportBeforeStep ==
    /\ (InLoopBody \/ pc = "loop" \/ Crashed \/ Decoded) => IsPrefix(iterOps, OrderCoded)
    /\ (pc = "loop" /\ i > 0) => iterOps = OrderCoded
    /\ ReportsPerIteration

C5_Witness ==
    /\ pc = "loop"
    /\ i = 2
    /\ iterOps = <<"build", "unet", "report", "combine", "step">>
    /\ Len(reports) = 2

PromptEmbedding == TextEncoder(Tokenize(args.prompt))

UncondEmbedding == TextEncoder(Tokenize(EmptyPrompt))

Conditioned ==
    \/ pc \in {"noise", "set_timesteps", "loop"}
    \/ InLoopBody
    \/ Decoded
    \/ (Crashed /\ failure[1].op \in {"unet", "put", "vae"})

\* C6: the embedding given to the denoiser has batch size 1 (the prompt
\* embedding, one text-encoder call) when guidance_scale <= 1.0 and batch
\* size 2, unconditional embedding first and prompt embedding second (two
\* text-encoder calls), when guidance_scale > 1.0; every iteration receives
\* that same embedding, and the guidance combination is applied in an
\* iteration exactly when guidance_scale > 1.0.
C6_EmbeddingBatch ==
    /\ (Conditioned /\ args.guidance_scale <= 10) =>
          /\ text_embeddings.shape[1] = 1
          /\ text_embeddings.data = PromptEmbedding.data
          /\ calls.text_encoder = 1
    /\ (Conditioned /\ args.guidance_scale > 10) =>
          /\ text_embeddings.shape[1] = 2
          /\ text_embeddings.data = UncondEmbedding.data \o PromptEmbedding.data
          /\ calls.text_encoder = 2
    /\ unet_call # <<>> =>
          /\ unet_call[1].encoder_hidden_states = text_embeddings
          /\ Len(unet_call[1].encoder_hidden_states.data)
                = Len(unet_call[1].latent_model_input.data)
    /\ pc = "step" =>
          LET raw == UnetForward(unet_call[1].latent_model_input, unet_call[1].t,
                                 unet_call[1].encoder_hidden_states)
          IN  /\ guided <=> args.guidance_scale > 10
              /\ args.guidance_scale > 10 =>
                    noise_pred = Guide(raw, args.guidance_scale)
              /\ args.guidance_scale <= 10 => noise_pred = raw

C6_Witness ==
    /\ pc = "step"
    /\ i >= 1
    /\ args.guidance_scale > 10
    /\ guided
    /\ Len(text_embeddings.data) = 2
    /\ text_embeddings.data[1] = UncondEmbedding.data[1]
    /\ text_embeddings.data[1] # text_embeddings.data[2]

\* C7: at every iteration and for both guidance settings the latent given
\* to the denoiser has exactly the denoiser's declared input shape, batch
\* dimension included, and the latent keeps the per-sample shape (the
\* declared shape without its leading dimension) from iteration to iteration.
C7_InputShapeMatchesDeclared ==
    /\ unet_call # <<>> =>
          unet_call[1].latent_model_input.shape = UnetInputShape
    /\ (pc = "loop" \/ InLoopBody \/ Decoded) =>
          latents.shape = Tail(UnetInputShape)

\* C8: a command-line run (main) gives no status endpoint and still writes
\* its output file whenever model loading and every forward pass succeed:
\* nothing but a loading or forward-pass failure ends a run of main.
C8_MainNeedsNoStatusEndpoint ==
    (caller = "main" /\ Crashed) =>
        failure[1].op \in {"load", "text_encoder", "unet", "vae"}

(***************************************************************************)
(* The pipeline as a function of the arguments, the scheduler and the seed *)
(* alone.                                                                  *)
(***************************************************************************)
ExpectedEmbedding ==
    IF args.guidance_scale > 10
    THEN Concatenate(UncondEmbedding, PromptEmbedding)
    ELSE PromptEmbedding

ExpectedOffset ==
    IF "offset" \in scheduler.set_timesteps_params THEN 1 ELSE 0

ExpectedStepKwargs ==
    IF "eta" \in scheduler.step_params THEN {<<"eta", args.eta>>} ELSE {}

ExpectedInput(lat, k) ==
    LET x == IF args.guidance_scale > 10 THEN Stack(lat, lat) ELSE lat
    IN  IF scheduler.isLMS THEN DivSigma(x, Sigmas(N)[k + 1]) ELSE x

ExpectedNoise(lat, k) ==
    LET raw == UnetForward(ExpectedInput(lat, k),
                           Timesteps(N, ExpectedOffset)[k + 1], ExpectedEmbedding)
    IN  IF args.guidance_scale > 10 THEN Guide(raw, args.guidance_scale) ELSE raw

RECURSIVE ExpectedLatents(_)
ExpectedLatents(k) ==
    IF k = 0
    THEN LET z == Randn(Tail(UnetInputShape), args.seed[1])
         IN  IF scheduler.isLMS THEN MulScalar(z, Sigmas(N)[1]) ELSE z
    ELSE LET prev == ExpectedLatents(k - 1)
         IN  SchedulerStepFn(ExpectedNoise(prev, k - 1),
                             IF scheduler.isLMS THEN k - 1
                             ELSE Timesteps(N, ExpectedOffset)[k],
                             prev, ExpectedStepKwargs)

ExpectedImage == ToCvImage(VaeForward(ExpandDims(ExpectedLatents(N))))

\* C9: for a fixed seed the latents, the progress reports and the output
\* image of a run are determined by the seed, the prompt and the parameters:
\* the initial latent comes from the generator seeded at the start of the run,
\* and neither the elapsed-time measurements nor the generator's earlier state
\* influence the latent or the image.
C9_SeedDeterminesRun ==
    args.seed # <<>> =>
        /\ (pc = "loop" \/ InLoopBody \/ Decoded) => latents = ExpectedLatents(i)
        /\ pc \in {"write", "returned", "done"} => image = ExpectedImage
        /\ pc = "done" => output_file = <<ExpectedImage>>
        /\ \A k \in 1..Len(reports) :
              reports[k] = [being_generated |-> TRUE,
                            generated_percent |-> RoundPercent(k - 1, N)]

C9_Witness ==
    /\ pc = "done"
    /\ args.seed = <<2>>
    /\ N >= 2
    /\ total > 0
    /\ Len(reports) = N
    /\ output_file = <<ExpectedImage>>

\* C10: set_timesteps receives offset=1 exactly when its signature has a
\* parameter named offset; step receives eta exactly when its signature has
\* a parameter named eta; with the LMS scheduler step is called with the
\* loop index i, the model input is divided by sqrt(sigma_i^2 + 1) and the
\* initial latent multiplied by sigma_0, otherwise step is called with the
\* time value t and nothing is scaled; the choice is the same in every
\* iteration of a run.
C10_SchedulerCalls ==
    /\ set_timesteps_call # <<>> =>
          /\ set_timesteps_call[1].num_inference_steps = N
          /\ set_timesteps_call[1].kwargs \subseteq {<<"offset", 1>>}
          /\ <<"offset", 1>> \in set_timesteps_call[1].kwargs
                <=> "offset" \in scheduler.set_timesteps_params
          /\ init_sigma = IF scheduler.isLMS THEN <<sigmas[1]>> ELSE <<>>
    /\ step_call # <<>> =>
          /\ step_call[1].kwargs \subseteq {<<"eta", args.eta>>}
          /\ <<"eta", args.eta>> \in step_call[1].kwargs
                <=> "eta" \in scheduler.step_params
          /\ scheduler.isLMS => step_call[1].timestep = step_call[1].i
          /\ ~scheduler.isLMS => step_call[1].timestep = step_call[1].t
    /\ InLoopBody =>
          LET x == IF args.guidance_scale > 10 THEN Stack(latents, latents)
                   ELSE latents
          IN  /\ scheduler.isLMS =>
                    /\ input_sigma = <<sigmas[i + 1]>>
                    /\ latent_model_input = DivSigma(x, sigmas[i + 1])
              /\ ~scheduler.isLMS =>
                    /\ input_sigma = <<>>
                    /\ latent_model_input = x

C10_Witness ==
    /\ pc = "loop"
    /\ i >= 2
    /\ ~scheduler.isLMS
    /\ "offset" \in scheduler.set_timesteps_params
    /\ "eta" \in scheduler.step_params
    /\ args.eta > 0
    /\ step_call[1].kwargs = {<<"eta", args.eta>>}
    /\ step_call[1].timestep = step_call[1].t
    /\ step_call[1].t # step_call[1].i

====
